---- MODULE Spec2Model ----
(***************************************************************************)
(* A model of redmine-wiki-exporter: the Throttle and retryRequest of      *)
(* main.js, the crawl they drive (getProjects, getWikiPages, getWikiPage,  *)
(* getAttachment, backupWikiPage) and the link rewriting of fix-links.js.  *)
(* Time is in milliseconds.  Strings that the code scans are sequences of  *)
(* one-character strings.                                                  *)
(***************************************************************************)
EXTENDS Integers, Sequences, FiniteSets, TLC

VARIABLES
  now,        \* Date.now()
  queue,      \* Throttle.queue
  lastTime,   \* Throttle.lastTime
  active,     \* Throttle.active
  thTimer,    \* due time of the setTimeout armed by Throttle.process, or NoTimer
  thPending,  \* history: timers of the Throttle set and not yet fired
  started,    \* history: the tasks the Throttle has run, with their start times
  nextId,     \* history: number of tasks handed to enqueue so far
  rq,         \* one retryRequest call: its closure state and what it has done
  server,     \* what the Redmine server holds (fixed during a run)
  projects,   \* getProjects: let projects = []
  page,       \* getProjects: let page = 0
  inflight,   \* HTTP requests issued and not yet answered
  retryTimers,\* setTimeout(tryRequest, delay) timers armed by retryRequest
  delivered,  \* history: the arguments getProjects' callback was invoked with
  sidecar,    \* history: the contents written to projects-metadata.json
  files,      \* the page and attachment files written, with the response they came from
  used,       \* history: the answers whose data a caller's callback was given
  reqLog,     \* history: the start of the latest HTTP request, and how requests started
  listLog,    \* history: the listing requests issued
  listSeen,   \* history: number of listing results received
  faults,     \* number of failing answers the server has given
  doc,        \* history: the pieces the markdown file was made of
  content,    \* the text of the markdown file
  configUrl,  \* config.redmineUrl
  currentProject, \* name of the directory that holds the markdown file
  dirs,       \* the directories of the output directory, in listing order
  attFiles,   \* the files in the attachments/ directories: <<directory, name>>
  passes,     \* number of times fix-links.js has processed the file
  warnings,   \* number of "Attachment not found" warnings logged
  outDirs,    \* create-indexes.js: the directories of the output directory, in listing order
  dirFiles,   \* the files of each directory, in listing order: [name, content]
  projectMetadata, \* the entries of projects-metadata.json: [identifier, name]
  ixProjectList,\* createProjectIndexes: const projectList = []
  ixPos,      \* createProjectIndexes: position of forEach in projectDirs
  ixCandidates,\* history: what findIndexCandidate returned for each directory
  ixWrites,   \* history: the writes to project directories: [dir, name, content]
  mainIndex,  \* the top-level Index.md: <<content>>, or <<>> when not written
  ixRun,      \* which run of create-indexes.js over the output directory this is
  ixDone,     \* createMainIndex has returned in this run
  ixBefore    \* history: <<[dirFiles, mainIndex]>> as the run before left them

thVars == <<queue, lastTime, active, thTimer, thPending>>
hsVars == <<started, nextId>>
crVars == <<server, projects, page, inflight, retryTimers, delivered, sidecar,
            files, used, reqLog, listLog, listSeen, faults>>
lkVars == <<doc, content, configUrl, currentProject, dirs, attFiles, passes,
            warnings>>
ixVars == <<outDirs, dirFiles, projectMetadata, ixProjectList, ixPos,
            ixCandidates, ixWrites, mainIndex, ixRun, ixDone, ixBefore>>
vars == <<now, thVars, hsVars, rq, crVars, lkVars, ixVars>>

----------------------------------------------------------------------------
(* Bounds of the model *)

\* number of opaque tasks handed to the Throttle in SpecThrottle
MaxTasks == 4
\* Date.now() when the script starts
StartTime == 2000
\* granularity of the clock
TickMs == 600
\* the clock stops advancing here
MaxTime == 8000

\* largest maxRetries handed to retryRequest in SpecRetry
MaxRetriesBound == 5

\* number of full listing pages in SpecListing
MaxFullPages == 2
\* projects, and wiki pages per project, of the server in SpecCrawl
MaxProjects == 2
MaxPages == 2
\* wiki pages of the server in SpecCrawl, all projects together
MaxWikiPages == 2
\* failing answers the server gives in one run
MaxFaults == 1
\* runs of fix-links.js over the same file
MaxPasses == 2
\* runs of create-indexes.js over the same output directory
MaxRuns == 2
\* files listed in a project directory, and project directories, in SpecIndex
MaxFiles == 3
MaxDirs == 3

(* Program constants *)

\* const NB_PROJECTS_PER_PAGE = 25
NB_PROJECTS_PER_PAGE == 25
\* sizes of the last listing page in SpecListing
FinalSizes == {0, 7, 24}

\* function retryRequest(requestFn, maxRetries = 5, baseDelay = 5000)
defaultMaxRetries == 5
defaultBaseDelay == 5000
BaseDelays == {1000, defaultBaseDelay}

\* new Throttle(1200)
minIntervalMs == 1200

NoTimer == -1

Max(a, b) == IF a >= b THEN a ELSE b

----------------------------------------------------------------------------
(* Throttle *)

\* a process() that does not wait at all
ProcessWaitNone(t, lt) == 0

\* process(): const wait = Math.max(0, this.minIntervalMs - (now - this.lastTime))
ProcessWait(t, lt) == Max(0, minIntervalMs - (t - lt))

\* a process() that sets a timer whenever something is queued, whether or
\* not one is pending
ProcessArmsAlways(act, q, t, lt, timer) ==
  IF q = <<>>
    THEN [active |-> act, timer |-> timer, armed |-> 0]
    ELSE [active |-> TRUE, timer |-> t + ProcessWait(t, lt), armed |-> 1]

\* process(): returns at once when a timer is pending or nothing is queued,
\* otherwise sets active and arms the timer.
Process(act, q, t, lt, timer) ==
  IF act \/ q = <<>>
    THEN [active |-> act, timer |-> timer, armed |-> 0]
    ELSE [active |-> TRUE, timer |-> t + ProcessWait(t, lt), armed |-> 1]

\* a shift that takes the task enqueued last
ShiftLast(q) == [fn |-> q[Len(q)], rest |-> SubSeq(q, 1, Len(q) - 1)]

\* const fn = this.queue.shift()
Shift(q) == [fn |-> Head(q), rest |-> Tail(q)]

\* constructor
ThrottleInit ==
  /\ queue = <<>>
  /\ lastTime = 0
  /\ active = FALSE
  /\ thTimer = NoTimer
  /\ thPending = 0

\* time passes
Tick ==
  /\ now + TickMs <= MaxTime
  /\ now' = now + TickMs
  /\ UNCHANGED <<thVars, hsVars, rq, crVars, lkVars, ixVars>>

\* time passes beyond the horizon of the model for as long as the timer of
\* the Throttle is still to come
TickToTimer ==
  /\ now + TickMs > MaxTime
  /\ thTimer # NoTimer
  /\ now < thTimer
  /\ now' = now + TickMs
  /\ UNCHANGED <<thVars, hsVars, rq, crVars, lkVars, ixVars>>

\* enqueue(fn) called from outside any task: push, then process()
Enqueue ==
  /\ nextId < MaxTasks
  /\ nextId' = nextId + 1
  /\ queue' = Append(queue, nextId + 1)
  /\ LET p == Process(active, queue', now, lastTime, thTimer)
     IN /\ active' = p.active
        /\ thTimer' = p.timer
        /\ thPending' = thPending + p.armed
  /\ UNCHANGED <<now, lastTime, started, rq, crVars, lkVars, ixVars>>

\* The timer callback of process(): stamp lastTime, shift the queue, run the
\* task, clear active, process() again.  The task is opaque: it may call
\* enqueue itself (k new tasks) and takes d milliseconds of synchronous work.
ThrottleFire ==
  /\ thTimer # NoTimer
  /\ now >= thTimer
  /\ \E k \in 0..1, d \in {0, TickMs} :
       /\ nextId + k <= MaxTasks
       /\ d = 0 \/ now + d <= MaxTime
       /\ lastTime' = now
       /\ started' = Append(started, [id |-> Shift(queue).fn, at |-> now,
                                      inner |-> (k = 1)])
       /\ nextId' = nextId + k
       /\ now' = now + d
       \* fn() runs with active still TRUE, so its enqueue only pushes
       /\ queue' = IF k = 1 THEN Append(Shift(queue).rest, nextId + 1)
                           ELSE Shift(queue).rest
       /\ LET p == Process(FALSE, queue', now', lastTime', NoTimer)
          IN /\ active' = p.active
             /\ thTimer' = p.timer
             /\ thPending' = thPending - 1 + p.armed
  /\ UNCHANGED <<rq, crVars, lkVars, ixVars>>

----------------------------------------------------------------------------
(* retryRequest *)

\* What requestFn hands to its callback: the error's code ("none" when error
\* is null), the response's statusCode (0 when there is no response) and the
\* body ("" when empty, "valid" when it holds what the caller parses out of
\* it, "garbage" for any other text such as an HTML error page).
ErrorCodes == {"ECONNREFUSED", "ECONNRESET", "ETIMEDOUT"}
StatusCodes == {200, 401, 404, 429, 500, 503}
Outcomes ==
  [code : ErrorCodes, status : {0}, body : {""}]
    \cup [code : {"none"}, status : {200}, body : {"", "valid", "garbage"}]
    \cup [code : {"none"}, status : StatusCodes \ {200}, body : {"", "garbage"}]
NoOutcome == [code |-> "none", status |-> 0, body |-> ""]

\* The outcomes the specification calls transient: a refused or reset
\* connection, or HTTP 429 or 503.
TransientOutcome(o) ==
  o.code \in {"ECONNREFUSED", "ECONNRESET"} \/ o.status \in {429, 503}

RECURSIVE Pow2(_)
Pow2(n) == IF n <= 0 THEN 1 ELSE 2 * Pow2(n - 1)

\* error && (error.code === 'ECONNREFUSED' || error.code === 'ECONNRESET')
IsConnectionRefused(o) == o.code \in {"ECONNREFUSED", "ECONNRESET"}

\* a classification that treats every status from 400 up as rate limiting
IsRateLimitedAnyFailure(o) == o.status >= 400

\* response && (response.statusCode === 429 || response.statusCode === 503)
IsRateLimited(o) == o.status \in {429, 503}

\* a retry condition that is off by one
ShouldRetryInclusive(o, attempt, maxRetries) ==
  (IsConnectionRefused(o) \/ IsRateLimited(o)) /\ attempt <= maxRetries

\* (isConnectionRefused || isRateLimited) && attempt < maxRetries
ShouldRetry(o, attempt, maxRetries) ==
  (IsConnectionRefused(o) \/ IsRateLimited(o)) /\ attempt < maxRetries

\* a backoff that grows linearly
RetryDelayLinear(baseDelay, attempt) == baseDelay * attempt

\* baseDelay * Math.pow(2, attempt - 1), attempt already incremented
RetryDelay(baseDelay, attempt) == baseDelay * Pow2(attempt - 1)

RqIdle == [state |-> "idle"]

\* retryRequest(requestFn, maxRetries, baseDelay) has been called: the promise
\* executor has run tryRequest once, so requestFn is in flight.
RetryInit ==
  \E m \in 0..MaxRetriesBound, b \in BaseDelays :
    rq = [state |-> "inflight", maxRetries |-> m, baseDelay |-> b,
          attempt |-> 0, calls |-> 1, delays |-> <<>>,
          nTransient |-> 0, last |-> NoOutcome,
          result |-> NoOutcome, resolves |-> 0]

\* requestFn calls back with outcome o
RetryRespond ==
  /\ rq.state = "inflight"
  /\ \E o \in Outcomes :
       LET seen == [rq EXCEPT !.last = o,
                              !.nTransient = IF TransientOutcome(o) THEN @ + 1 ELSE @]
       IN IF ShouldRetry(o, rq.attempt, rq.maxRetries)
            THEN rq' = [seen EXCEPT !.attempt = @ + 1,
                                    !.delays = Append(@, RetryDelay(rq.baseDelay, rq.attempt + 1)),
                                    !.state = "backoff"]
            ELSE rq' = [seen EXCEPT !.result = o,
                                    !.resolves = @ + 1,
                                    !.state = "resolved"]
  /\ UNCHANGED <<now, thVars, hsVars, crVars, lkVars, ixVars>>

\* setTimeout(tryRequest, delay) fires: requestFn is invoked again
RetryTimerFire ==
  /\ rq.state = "backoff"
  /\ rq' = [rq EXCEPT !.calls = @ + 1, !.state = "inflight"]
  /\ UNCHANGED <<now, thVars, hsVars, crVars, lkVars, ixVars>>

----------------------------------------------------------------------------
(* The crawl: Redmine.getProjects, getProjectListPage, getWikiPages,       *)
(* getWikiPage, getAttachment, the callback main.js hands to getProjects,  *)
(* and backupWikiPage                                                      *)

\* Projects are numbered from 1 in listing order, the wiki pages of a project
\* are numbered from 1, and every page carries the attachments server.atts.
\* An attachment is [id, name]; id 0 stands for an attachment without id.
AttLists ==
  { <<>>,
    <<[id |-> 7, name |-> "f"]>>,
    <<[id |-> 0, name |-> "g"], [id |-> 7, name |-> "f"]>> }

\* the entries the listing source holds at an offset
ServerListPage(offset) ==
  LET i == (offset \div NB_PROJECTS_PER_PAGE) + 1
      n == IF i <= Len(server.sizes) THEN server.sizes[i] ELSE 0
  IN [j \in 1..n |-> offset + j]

\* the wiki index of a project
ServerWikiPages(proj) == [j \in 1..server.pages[proj] |-> j]

\* the answers the server gives during a crawl
CrawlOutcomes ==
  {o \in Outcomes : /\ o.code \in {"none", "ECONNREFUSED", "ETIMEDOUT"}
                    /\ o.status \in {0, 200, 401, 404, 503}}

IsOk(o) == o.code = "none" /\ o.status = 200 /\ o.body = "valid"

\* the server gives at most MaxFaults answers other than 200 with a good body
FaultAllowed(o) == IsOk(o) \/ faults < MaxFaults

FaultsAfter(o) == IF IsOk(o) THEN faults ELSE faults + 1

ListTask(pg) == [kind |-> "list", pg |-> pg, proj |-> 0]
IndexTask(proj) == [kind |-> "index", pg |-> 0, proj |-> proj]

Request(kind, pg, proj, title, att) ==
  [kind |-> kind, pg |-> pg, proj |-> proj, title |-> title, att |-> att,
   attempt |-> 0]

\* history: n requests start now; throttled says whether a Throttle task
\* started them.  close records that two consecutive request starts were
\* less than minIntervalMs apart.
NoteStarts(log, n, throttled) ==
  IF n = 0 THEN log
  ELSE [last |-> now,
        close |-> \/ log.close
                  \/ n >= 2
                  \/ (log.last # NoTimer /\ now - log.last < minIntervalMs),
        direct |-> log.direct \/ ~throttled]

NoteListing(log, r) ==
  IF r.kind = "list"
    THEN Append(log, [offset |-> r.pg, seen |-> listSeen])
    ELSE log

\* an offset computed from the page number plus one
ListOffsetNextPage(pg) == (pg + 1) * NB_PROJECTS_PER_PAGE

\* getProjectListPage: const offset = page * NB_PROJECTS_PER_PAGE
ListOffset(pg) == pg * NB_PROJECTS_PER_PAGE

\* The timer callback of Throttle.process() when the queue holds the crawl's
\* tasks: the async task runs up to its await, that is, it issues its
\* request through retryRequest and returns.
TaskFire ==
  /\ thTimer # NoTimer
  /\ now >= thTimer
  /\ LET fn == Shift(queue).fn
         r == IF fn.kind = "list"
                THEN Request("list", ListOffset(fn.pg), 0, 0, 0)
                ELSE Request("index", 0, fn.proj, 0, 0)
     IN /\ lastTime' = now
        /\ queue' = Shift(queue).rest
        /\ inflight' = inflight \cup {r}
        /\ reqLog' = NoteStarts(reqLog, 1, TRUE)
        /\ listLog' = NoteListing(listLog, r)
        /\ LET p == Process(FALSE, queue', now, lastTime', NoTimer)
           IN /\ active' = p.active
              /\ thTimer' = p.timer
              /\ thPending' = thPending - 1 + p.armed
  /\ UNCHANGED <<now, hsVars, rq, lkVars, ixVars, server, projects, page, retryTimers,
                 delivered, sidecar, files, used, listSeen, faults>>

\* retryRequest, transient branch: the answer is transient and attempts are
\* left, so the request is tried again after the backoff delay
RespondTransient ==
  /\ \E r \in inflight, o \in CrawlOutcomes :
       /\ FaultAllowed(o)
       /\ ShouldRetry(o, r.attempt, defaultMaxRetries)
       /\ inflight' = inflight \ {r}
       /\ retryTimers' = retryTimers \cup
            {[req |-> [r EXCEPT !.attempt = @ + 1],
              due |-> now + RetryDelay(defaultBaseDelay, r.attempt + 1)]}
       /\ faults' = FaultsAfter(o)
  /\ UNCHANGED <<now, thVars, hsVars, rq, lkVars, ixVars, server, projects, page, delivered,
                 sidecar, files, used, reqLog, listLog, listSeen>>

\* setTimeout(tryRequest, delay) fires: the request is issued again
RetryFire ==
  /\ \E t \in retryTimers :
       /\ now >= t.due
       /\ retryTimers' = retryTimers \ {t}
       /\ inflight' = inflight \cup {t.req}
       /\ reqLog' = NoteStarts(reqLog, 1, FALSE)
       /\ listLog' = NoteListing(listLog, t.req)
  /\ UNCHANGED <<now, thVars, hsVars, rq, lkVars, ixVars, server, projects, page, delivered,
                 sidecar, files, used, listSeen, faults>>

Nothing == [call |-> FALSE, arg |-> <<>>]

\* getProjectListPage after the await: what it hands to its callback
GetProjectListPageResult(r, o) ==
  IF o.code # "none" THEN Nothing
  ELSE IF o.status = 401 THEN Nothing
  ELSE IF o.status # 200 THEN Nothing
  ELSE IF o.body # ""
    THEN [call |-> TRUE,
          arg |-> IF o.body = "valid" THEN ServerListPage(r.pg) ELSE <<>>]
  ELSE Nothing

\* getWikiPages after the await
GetWikiPagesResult(r, o) ==
  IF o.code # "none" THEN Nothing
  ELSE IF o.status = 401 THEN Nothing
  ELSE IF o.status # 200 THEN Nothing
  ELSE IF o.body # ""
    THEN [call |-> TRUE,
          arg |-> IF o.body = "valid" THEN ServerWikiPages(r.proj) ELSE <<>>]
  ELSE Nothing

\* getWikiPage after the await: arg is <<page>>, or <<>> for a null page
GetWikiPageResult(r, o) ==
  IF o.code # "none" THEN Nothing
  ELSE IF o.body # ""
    THEN [call |-> TRUE,
          arg |-> IF o.body = "valid" THEN <<server.atts>> ELSE <<>>]
  ELSE Nothing

\* getAttachment after the await: arg is <<body>>
GetAttachmentResult(r, o) ==
  IF o.code # "none" THEN Nothing
  ELSE IF o.body # "" THEN [call |-> TRUE, arg |-> <<o.body>>]
  ELSE Nothing

\* history: the callback was handed data taken from answer o
NoteUse(r, o, res) ==
  IF res.call /\ res.arg # <<>>
    THEN used \cup {[kind |-> r.kind, status |-> o.status]}
    ELSE used

\* getProjects, next(): projectList.forEach(project => projects.push(project))
Accumulate(acc, projectList) == acc \o projectList

\* a getProjects callback that only records what it is given
RecordingCallback(ps) ==
  /\ delivered' = Append(delivered, ps)
  /\ UNCHANGED <<thVars, sidecar>>

\* a callback that asks for the wiki pages of every project and leaves
\* projects-metadata.json unwritten
MainCallbackNoSidecar(ps) ==
  /\ delivered' = Append(delivered, ps)
  /\ sidecar' = sidecar
  /\ queue' = queue \o [i \in 1..Len(ps) |-> IndexTask(ps[i])]
  /\ LET p == Process(active, queue', now, lastTime, thTimer)
     IN /\ active' = p.active
        /\ thTimer' = p.timer
        /\ thPending' = thPending + p.armed
  /\ lastTime' = lastTime

\* the callback main.js hands to getProjects: write projects-metadata.json,
\* then getWikiPages (a Throttle task) for every project
MainCallback(ps) ==
  /\ delivered' = Append(delivered, ps)
  /\ sidecar' = Append(sidecar, ps)
  /\ queue' = queue \o [i \in 1..Len(ps) |-> IndexTask(ps[i])]
  /\ LET p == Process(active, queue', now, lastTime, thTimer)
     IN /\ active' = p.active
        /\ thTimer' = p.timer
        /\ thPending' = thPending + p.armed
  /\ lastTime' = lastTime

\* A listing request is answered for good: getProjectListPage interprets the
\* answer and, when it calls back, next() accumulates the page and either
\* asks for the following page or calls getProjects' callback: main's when
\* toMain, the recording one otherwise.
RespondList(toMain) ==
  /\ \E r \in inflight, o \in CrawlOutcomes :
       /\ r.kind = "list"
       /\ FaultAllowed(o)
       /\ ~ShouldRetry(o, r.attempt, defaultMaxRetries)
       /\ inflight' = inflight \ {r}
       /\ faults' = FaultsAfter(o)
       /\ listSeen' = listSeen + 1
       /\ used' = NoteUse(r, o, GetProjectListPageResult(r, o))
       /\ LET res == GetProjectListPageResult(r, o)
          IN IF ~res.call
               THEN UNCHANGED <<thVars, projects, page, delivered, sidecar>>
               ELSE /\ projects' = Accumulate(projects, res.arg)
                    /\ IF Len(res.arg) = NB_PROJECTS_PER_PAGE
                         THEN /\ page' = page + 1
                              /\ queue' = Append(queue, ListTask(page'))
                              /\ LET p == Process(active, queue', now, lastTime, thTimer)
                                 IN /\ active' = p.active
                                    /\ thTimer' = p.timer
                                    /\ thPending' = thPending + p.armed
                              /\ UNCHANGED <<lastTime, delivered, sidecar>>
                         ELSE /\ page' = page
                              /\ IF toMain
                                   THEN MainCallback(projects')
                                   ELSE RecordingCallback(projects')
  /\ UNCHANGED <<now, hsVars, rq, lkVars, ixVars, server, retryTimers, files, reqLog, listLog>>

RespondListRecording == RespondList(FALSE)

RespondListMain == RespondList(TRUE)

\* A wiki-index request is answered for good; main's callback calls
\* getWikiPage for every page, and each call issues its request at once.
RespondIndex ==
  /\ \E r \in inflight, o \in CrawlOutcomes :
       /\ r.kind = "index"
       /\ FaultAllowed(o)
       /\ ~ShouldRetry(o, r.attempt, defaultMaxRetries)
       /\ faults' = FaultsAfter(o)
       /\ LET res == GetWikiPagesResult(r, o)
              new == IF res.call
                       THEN {Request("page", 0, r.proj, res.arg[i], 0) :
                               i \in 1..Len(res.arg)}
                       ELSE {}
          IN /\ inflight' = (inflight \ {r}) \cup new
             /\ used' = NoteUse(r, o, res)
             /\ reqLog' = NoteStarts(reqLog, Cardinality(new), FALSE)
  /\ UNCHANGED <<now, thVars, hsVars, rq, lkVars, ixVars, server, projects, page, retryTimers,
                 delivered, sidecar, files, listLog, listSeen>>

\* a backupWikiPage that asks for the attachments and writes no .md file
PageFilesUnwritten(r, o, full) == files

\* backupWikiPage: fs.writeFileSync(projectDir+'/'+page.title+'.md', page.text)
PageFiles(r, o, full) ==
  IF full
    THEN files \cup {[kind |-> "md", proj |-> r.proj, title |-> r.title,
                      name |-> "", status |-> o.status]}
    ELSE files

\* A wiki-page request is answered for good; a non-null page goes to
\* backupWikiPage, which writes the .md file and calls getAttachment for
\* every attachment; getAttachment issues its request at once when the
\* attachment has an id.
RespondPage ==
  /\ \E r \in inflight, o \in CrawlOutcomes :
       /\ r.kind = "page"
       /\ FaultAllowed(o)
       /\ ~ShouldRetry(o, r.attempt, defaultMaxRetries)
       /\ faults' = FaultsAfter(o)
       /\ LET res == GetWikiPageResult(r, o)
              full == res.call /\ res.arg # <<>>
              atts == IF full THEN res.arg[1] ELSE <<>>
              new == {Request("att", 0, r.proj, r.title, i) :
                        i \in {j \in 1..Len(atts) : atts[j].id # 0}}
          IN /\ inflight' = (inflight \ {r}) \cup new
             /\ used' = NoteUse(r, o, res)
             /\ files' = PageFiles(r, o, full)
             /\ reqLog' = NoteStarts(reqLog, Cardinality(new), FALSE)
  /\ UNCHANGED <<now, thVars, hsVars, rq, lkVars, ixVars, server, projects, page, retryTimers,
                 delivered, sidecar, listLog, listSeen>>

\* An attachment download is answered for good; backupWikiPage's callback
\* writes the body to attachments/<filename>.
RespondAtt ==
  /\ \E r \in inflight, o \in CrawlOutcomes :
       /\ r.kind = "att"
       /\ FaultAllowed(o)
       /\ ~ShouldRetry(o, r.attempt, defaultMaxRetries)
       /\ faults' = FaultsAfter(o)
       /\ inflight' = inflight \ {r}
       /\ used' = NoteUse(r, o, GetAttachmentResult(r, o))
       /\ LET res == GetAttachmentResult(r, o)
          IN files' = IF res.call
                        THEN files \cup {[kind |-> "att", proj |-> r.proj,
                                          title |-> r.title,
                                          name |-> server.atts[r.att].name,
                                          status |-> o.status]}
                        ELSE files
  /\ UNCHANGED <<now, thVars, hsVars, rq, lkVars, ixVars, server, projects, page, retryTimers,
                 delivered, sidecar, reqLog, listLog, listSeen>>

\* main.js has run to its end: getProjects has handed the task for listing
\* page 0 to the Throttle, whose process() has armed its timer.
CrawlStart ==
  /\ now = StartTime
  /\ lastTime = 0
  /\ queue = <<ListTask(0)>>
  /\ active = TRUE
  /\ thTimer = now + ProcessWait(now, 0)
  /\ thPending = 1
  /\ started = <<>>
  /\ nextId = 0
  /\ rq = RqIdle
  /\ projects = <<>>
  /\ page = 0
  /\ inflight = {}
  /\ retryTimers = {}
  /\ delivered = <<>>
  /\ sidecar = <<>>
  /\ files = {}
  /\ used = {}
  /\ reqLog = [last |-> NoTimer, close |-> FALSE, direct |-> FALSE]
  /\ listLog = <<>>
  /\ listSeen = 0
  /\ faults = 0

\* nothing is queued, armed or in flight: the run is over
Quiescent ==
  /\ queue = <<>>
  /\ thTimer = NoTimer
  /\ inflight = {}
  /\ retryTimers = {}

----------------------------------------------------------------------------
(* fix-links.js: escapedUrl and processMarkdownFile.  A string is a         *)
(* sequence of one-character strings.                                       *)

\* the literal parts of the patterns and of the replacements
LitProjects == <<"/", "p", "r", "o", "j", "e", "c", "t", "s", "/">>
LitWiki == <<"/", "w", "i", "k", "i", "/">>
LitAttachments == <<"/", "a", "t", "t", "a", "c", "h", "m", "e", "n", "t", "s", "/">>
LitDownload == <<"d", "o", "w", "n", "l", "o", "a", "d", "/">>
LitMd == <<".", "m", "d">>
LitUp == <<".", ".", "/">>
LitLocalAtt == <<"a", "t", "t", "a", "c", "h", "m", "e", "n", "t", "s", "/">>
LitUpAtt == <<"/", "a", "t", "t", "a", "c", "h", "m", "e", "n", "t", "s", "/">>
Digits == {"0", "1", "2", "3", "4", "5", "6", "7", "8", "9"}

Range(s) == {s[i] : i \in 1..Len(s)}

RECURSIVE Flatten(_)
Flatten(ss) == IF ss = <<>> THEN <<>> ELSE Head(ss) \o Flatten(Tail(ss))

\* \s
IsSpace(c) == c \in {" ", "\n", "\t"}

\* the first index from i on whose character is in stop, or Len(s) + 1
RECURSIVE RunEnd(_, _, _)
RunEnd(s, i, stop) ==
  IF i > Len(s) \/ s[i] \in stop THEN i ELSE RunEnd(s, i + 1, stop)

\* the first index from i on whose character is not in keep, or Len(s) + 1
RECURSIVE RunOf(_, _, _)
RunOf(s, i, keep) ==
  IF i > Len(s) \/ s[i] \notin keep THEN i ELSE RunOf(s, i + 1, keep)

\* the index after literal lit found at i, or 0
MatchLit(lit, s, i) ==
  IF /\ i >= 1
     /\ i + Len(lit) - 1 <= Len(s)
     /\ \A k \in 1..Len(lit) : s[i + k - 1] = lit[k]
    THEN i + Len(lit)
    ELSE 0

\* config.redmineUrl without its trailing slash
StripTrailingSlash(u) ==
  IF u # <<>> /\ u[Len(u)] = "/" THEN SubSeq(u, 1, Len(u) - 1) ELSE u

RegexSpecial ==
  {".", "*", "+", "?", "^", "$", "{", "}", "(", ")", "|", "[", "]", "\\"}

\* an escapedUrl that escapes nothing
EscapeNothing(u) == u

\* redmineUrl.replace(/[.*+?^${}()|[\]\\]/g, '\\$&')
RECURSIVE EscapeRegex(_)
EscapeRegex(u) ==
  IF u = <<>> THEN <<>>
  ELSE (IF Head(u) \in RegexSpecial THEN <<"\\", Head(u)>> ELSE <<Head(u)>>)
         \o EscapeRegex(Tail(u))

\* The index after a match at i of the pattern text pat from its k-th
\* character on, or 0: a backslash makes the next character literal, a bare
\* dot matches any character but a line terminator, any other character
\* matches itself.
RECURSIVE MatchPat(_, _, _, _)
MatchPat(pat, k, s, i) ==
  IF k > Len(pat) THEN i
  ELSE IF i > Len(s) THEN 0
  ELSE IF pat[k] = "\\"
    THEN IF k + 1 <= Len(pat) /\ s[i] = pat[k + 1]
           THEN MatchPat(pat, k + 2, s, i + 1) ELSE 0
  ELSE IF pat[k] = "."
    THEN IF s[i] # "\n" THEN MatchPat(pat, k + 1, s, i + 1) ELSE 0
  ELSE IF s[i] = pat[k] THEN MatchPat(pat, k + 1, s, i + 1) ELSE 0

RECURSIVE DropSpaces(_)
DropSpaces(s) ==
  IF s # <<>> /\ IsSpace(Head(s)) THEN DropSpaces(Tail(s)) ELSE s

\* x.replace(/\s+/g, '_')
RECURSIVE ReplaceSpaceRuns(_)
ReplaceSpaceRuns(s) ==
  IF s = <<>> THEN <<>>
  ELSE IF IsSpace(Head(s))
    THEN <<"_">> \o ReplaceSpaceRuns(DropSpaces(Tail(s)))
    ELSE <<Head(s)>> \o ReplaceSpaceRuns(Tail(s))

\* the first index from i on that holds c, or 0
RECURSIVE IndexOf(_, _, _)
IndexOf(s, c, i) ==
  IF i > Len(s) THEN 0 ELSE IF s[i] = c THEN i ELSE IndexOf(s, c, i + 1)

\* pageName.split(':', 2): the pieces between the colons, cut to the first two
SplitColon2(name) ==
  LET c1 == IndexOf(name, ":", 1)
      c2 == IndexOf(name, ":", c1 + 1)
  IN <<SubSeq(name, 1, c1 - 1),
       SubSeq(name, c1 + 1, IF c2 = 0 THEN Len(name) ELSE c2 - 1)>>

\* the replacement function of the [[...]] rewrite
WikiSyntaxReplacement(pageName) ==
  IF ":" \in Range(pageName)
    THEN LET project == SplitColon2(pageName)[1]
             pg == SplitColon2(pageName)[2]
         IN <<"[">> \o pg \o <<"]", "(">> \o LitUp \o project \o <<"/">>
              \o ReplaceSpaceRuns(pg) \o LitMd \o <<")">>
    ELSE <<"[">> \o pageName \o <<"]", "(">>
           \o ReplaceSpaceRuns(pageName) \o LitMd \o <<")">>

\* content.replace(/\[\[([^\]]+)\]\]/g, ...) from index i on: the scan moves
\* to the next [, where the pattern either matches or the scan goes on
RECURSIVE ReplaceWikiSyntax(_, _)
ReplaceWikiSyntax(s, i) ==
  LET j == RunEnd(s, i, {"["})
      e == RunEnd(s, j + 2, {"]"})
      hit == /\ j + 1 <= Len(s)
             /\ s[j + 1] = "["
             /\ e > j + 2
             /\ e + 1 <= Len(s)
             /\ s[e + 1] = "]"
  IN IF j > Len(s) THEN SubSeq(s, i, Len(s))
     ELSE IF hit
       THEN SubSeq(s, i, j - 1) \o WikiSyntaxReplacement(SubSeq(s, j + 2, e - 1))
              \o ReplaceWikiSyntax(s, e + 2)
     ELSE SubSeq(s, i, j) \o ReplaceWikiSyntax(s, j + 1)

NoMatch == [ok |-> FALSE]

\* \(<escapedUrl>\/projects\/([^\/]+)\/wiki\/([^)#?]+)(#[^)]+)?\) at index a
WikiTargetAt(s, a, pat) ==
  LET b == IF a <= Len(s) /\ s[a] = "(" THEN MatchPat(pat, 1, s, a + 1) ELSE 0
      c == IF b # 0 THEN MatchLit(LitProjects, s, b) ELSE 0
      d == IF c # 0 THEN RunEnd(s, c, {"/"}) ELSE 0
      e == IF c # 0 /\ d > c THEN MatchLit(LitWiki, s, d) ELSE 0
      f == IF e # 0 THEN RunEnd(s, e, {")", "#", "?"}) ELSE 0
      g == IF e # 0 /\ f <= Len(s) /\ s[f] = "#"
             THEN RunEnd(s, f + 1, {")"}) ELSE 0
  IN IF e = 0 \/ f = e \/ f > Len(s) THEN NoMatch
     ELSE IF s[f] = ")"
       THEN [ok |-> TRUE, end |-> f, project |-> SubSeq(s, c, d - 1),
             pg |-> SubSeq(s, e, f - 1), anchor |-> <<>>]
     ELSE IF s[f] = "#" /\ g > f + 1 /\ g <= Len(s)
       THEN [ok |-> TRUE, end |-> g, project |-> SubSeq(s, c, d - 1),
             pg |-> SubSeq(s, e, f - 1), anchor |-> SubSeq(s, f, g - 1)]
     ELSE NoMatch

\* \(<escapedUrl>\/attachments\/(?:download\/)?(\d+)\/([^)]+)\) at index a
AttachmentTargetAt(s, a, pat) ==
  LET b == IF a <= Len(s) /\ s[a] = "(" THEN MatchPat(pat, 1, s, a + 1) ELSE 0
      c == IF b # 0 THEN MatchLit(LitAttachments, s, b) ELSE 0
      c2 == IF c # 0 /\ MatchLit(LitDownload, s, c) # 0
              THEN MatchLit(LitDownload, s, c) ELSE c
      d == IF c2 # 0 THEN RunOf(s, c2, Digits) ELSE 0
      e == IF c2 # 0 /\ d > c2 /\ d <= Len(s) /\ s[d] = "/"
             THEN RunEnd(s, d + 1, {")"}) ELSE 0
  IN IF e = 0 \/ e = d + 1 \/ e > Len(s) THEN NoMatch
     ELSE [ok |-> TRUE, end |-> e, id |-> SubSeq(s, c2, d - 1),
           filename |-> SubSeq(s, d + 1, e - 1)]

\* (\[.*?\]) followed by a target, the bracket opening at index i and the
\* lazy .*? tried from index j on: the match with the shortest text.  The
\* text ends at a ] and cannot run over a line terminator.
RECURSIVE LazyTextThenWiki(_, _, _, _)
LazyTextThenWiki(s, i, j, pat) ==
  LET k == RunEnd(s, j, {"]", "\n"})
  IN IF k > Len(s) \/ s[k] = "\n" THEN NoMatch
     ELSE IF WikiTargetAt(s, k + 1, pat).ok
       THEN [ok |-> TRUE, text |-> SubSeq(s, i, k),
             target |-> WikiTargetAt(s, k + 1, pat)]
     ELSE LazyTextThenWiki(s, i, k + 1, pat)

RECURSIVE LazyTextThenAttachment(_, _, _, _)
LazyTextThenAttachment(s, i, j, pat) ==
  LET k == RunEnd(s, j, {"]", "\n"})
  IN IF k > Len(s) \/ s[k] = "\n" THEN NoMatch
     ELSE IF AttachmentTargetAt(s, k + 1, pat).ok
       THEN [ok |-> TRUE, text |-> SubSeq(s, i, k),
             target |-> AttachmentTargetAt(s, k + 1, pat)]
     ELSE LazyTextThenAttachment(s, i, k + 1, pat)

\* the replacement function of the wiki-link rewrite, without the text
WikiLinkRel(linkProject, pg, anchor, cur) ==
  (IF linkProject = cur
     THEN pg \o LitMd
     ELSE LitUp \o linkProject \o <<"/">> \o pg \o LitMd) \o anchor

\* content.replace(wikiLinkRegex, ...) from index i on: the scan moves to the
\* next [, where the pattern either matches or the scan goes on
RECURSIVE ReplaceWikiLinks(_, _, _, _)
ReplaceWikiLinks(s, i, pat, cur) ==
  LET j == RunEnd(s, i, {"["})
      m == LazyTextThenWiki(s, j, j + 1, pat)
  IN IF j > Len(s) THEN SubSeq(s, i, Len(s))
     ELSE IF m.ok
       THEN SubSeq(s, i, j - 1) \o m.text \o <<"(">>
              \o WikiLinkRel(m.target.project, m.target.pg, m.target.anchor, cur)
              \o <<")">> \o ReplaceWikiLinks(s, m.target.end + 1, pat, cur)
     ELSE SubSeq(s, i, j) \o ReplaceWikiLinks(s, j + 1, pat, cur)

\* decodeURIComponent on file names whose only escapes are %20 and %25
RECURSIVE DecodeURIComponent(_)
DecodeURIComponent(s) ==
  IF s = <<>> THEN <<>>
  ELSE IF Len(s) >= 3 /\ SubSeq(s, 1, 3) = <<"%", "2", "0">>
    THEN <<" ">> \o DecodeURIComponent(SubSeq(s, 4, Len(s)))
  ELSE IF Len(s) >= 3 /\ SubSeq(s, 1, 3) = <<"%", "2", "5">>
    THEN <<"%">> \o DecodeURIComponent(SubSeq(s, 4, Len(s)))
  ELSE <<Head(s)>> \o DecodeURIComponent(Tail(s))

\* encodeURIComponent on file names of letters, digits, dots, spaces and %
RECURSIVE EncodeURIComponent(_)
EncodeURIComponent(s) ==
  IF s = <<>> THEN <<>>
  ELSE (IF Head(s) = " " THEN <<"%", "2", "0">>
        ELSE IF Head(s) = "%" THEN <<"%", "2", "5">>
        ELSE <<Head(s)>>) \o EncodeURIComponent(Tail(s))

\* the first directory of the listing, from index k on, whose attachments/
\* holds the file, or <<>>
RECURSIVE FirstDirWith(_, _, _, _)
FirstDirWith(ds, k, name, atts) ==
  IF k > Len(ds) THEN <<>>
  ELSE IF <<ds[k], name>> \in atts THEN <<ds[k]>>
  ELSE FirstDirWith(ds, k + 1, name, atts)

\* a replacement function that looks in the other directories before the
\* local attachments/ directory
AttachmentReplacementOthersFirst(matched, text, filename, cur, ds, atts) ==
  LET decodedFilename == DecodeURIComponent(filename)
      other == FirstDirWith(ds, 1, decodedFilename, atts)
  IN IF other # <<>>
       THEN [found |-> TRUE,
             out |-> text \o <<"(">> \o LitUp \o other[1] \o LitUpAtt
                       \o EncodeURIComponent(decodedFilename) \o <<")">>]
     ELSE IF <<cur, decodedFilename>> \in atts
       THEN [found |-> TRUE,
             out |-> text \o <<"(">> \o LitLocalAtt
                       \o EncodeURIComponent(decodedFilename) \o <<")">>]
     ELSE [found |-> FALSE, out |-> matched]

\* the replacement function of the attachment rewrite: [found, out]
AttachmentReplacement(matched, text, filename, cur, ds, atts) ==
  LET decodedFilename == DecodeURIComponent(filename)
      other == FirstDirWith(ds, 1, decodedFilename, atts)
  IN IF <<cur, decodedFilename>> \in atts
       THEN [found |-> TRUE,
             out |-> text \o <<"(">> \o LitLocalAtt
                       \o EncodeURIComponent(decodedFilename) \o <<")">>]
     ELSE IF other # <<>>
       THEN [found |-> TRUE,
             out |-> text \o <<"(">> \o LitUp \o other[1] \o LitUpAtt
                       \o EncodeURIComponent(decodedFilename) \o <<")">>]
     ELSE [found |-> FALSE, out |-> matched]

\* content.replace(attachmentLinkRegex, ...) from index i on: the scan moves
\* to the next !, where the pattern either matches or the scan goes on.
\* [out, warned], warned counting the warnings logged
RECURSIVE ReplaceAttachmentLinks(_, _, _, _, _, _)
ReplaceAttachmentLinks(s, i, pat, cur, ds, atts) ==
  LET j == RunEnd(s, i, {"!"})
      m == IF j + 1 <= Len(s) /\ s[j + 1] = "["
             THEN LazyTextThenAttachment(s, j, j + 2, pat)
             ELSE NoMatch
  IN IF j > Len(s) THEN [out |-> SubSeq(s, i, Len(s)), warned |-> 0]
     ELSE IF m.ok
       THEN LET r == AttachmentReplacement(SubSeq(s, j, m.target.end), m.text,
                                           m.target.filename, cur, ds, atts)
                rest == ReplaceAttachmentLinks(s, m.target.end + 1, pat,
                                               cur, ds, atts)
            IN [out |-> SubSeq(s, i, j - 1) \o r.out \o rest.out,
                warned |-> rest.warned + (IF r.found THEN 0 ELSE 1)]
     ELSE LET rest == ReplaceAttachmentLinks(s, j + 1, pat, cur, ds, atts)
          IN [out |-> SubSeq(s, i, j) \o rest.out, warned |-> rest.warned]

\* const escapedUrl = ..., from config.redmineUrl
escapedUrl == EscapeRegex(StripTrailingSlash(configUrl))

\* processMarkdownFile(filePath): read the file, apply the three replaces one
\* after the other, each to the result of the one before, and write the file
\* back
ProcessMarkdownFile ==
  /\ passes < MaxPasses
  /\ \E pat \in {escapedUrl} :
       \E c1 \in {ReplaceWikiSyntax(content, 1)} :
         \E c2 \in {ReplaceWikiLinks(c1, 1, pat, currentProject)} :
           \E r \in {ReplaceAttachmentLinks(c2, 1, pat, currentProject,
                                            dirs, attFiles)} :
             /\ content' = r.out
             /\ warnings' = warnings + r.warned
  /\ passes' = passes + 1
  /\ UNCHANGED <<now, thVars, hsVars, rq, crVars, ixVars, doc, configUrl,
                 currentProject, dirs, attFiles>>

----------------------------------------------------------------------------
(* create-indexes.js: findIndexCandidate, createProjectIndexes and          *)
(* createMainIndex.  File names, project names and file contents are        *)
(* sequences of one-character strings.                                      *)

LitWikiMd == <<"W", "i", "k", "i", ".", "m", "d">>
LitIndexMd == <<"I", "n", "d", "e", "x", ".", "m", "d">>
LitIndexPath == <<"/", "I", "n", "d", "e", "x", ".", "m", "d">>
LitMainHeader ==
  <<"#", " ", "R", "e", "d", "m", "i", "n", "e", " ", "W", "i", "k", "i", " ", "E", "x", "p", "o", "r", "t", "\n", "\n">>
    \o <<"T", "h", "i", "s", " ", "s", "i", "t", "e", " ", "c", "o", "n", "t", "a", "i", "n", "s", " ", "e", "x", "p", "o", "r", "t", "e", "d", " ", "w", "i", "k", "i", " ", "p", "a", "g", "e", "s", " ", "f", "r", "o", "m", " ", "R", "e", "d", "m", "i", "n", "e", ".", "\n", "\n">>
    \o <<"#", "#", " ", "P", "r", "o", "j", "e", "c", "t", "s", "\n", "\n">>
LitPagesHeader == <<"\n", "\n", "#", "#", " ", "P", "a", "g", "e", "s", "\n", "\n">>

\* c.toLowerCase() for the letters the names of the model are written with
LowerChar(c) ==
  CASE c = "A" -> "a"
    [] c = "B" -> "b"
    [] c = "I" -> "i"
    [] c = "W" -> "w"
    [] OTHER -> c

\* s.toLowerCase()
ToLowerCase(s) == [i \in 1..Len(s) |-> LowerChar(s[i])]

\* f.endsWith('.md')
EndsWithMd(f) ==
  Len(f) >= Len(LitMd) /\ SubSeq(f, Len(f) - Len(LitMd) + 1, Len(f)) = LitMd

\* s.includes(sub)
Includes(s, sub) ==
  \E i \in 1..(Len(s) - Len(sub) + 1) : SubSeq(s, i, i + Len(sub) - 1) = sub

\* s.replace('.md', ''): the first occurrence is removed
ReplaceFirstMd(s) ==
  IF Includes(s, LitMd)
    THEN LET i == CHOOSE k \in 1..(Len(s) - Len(LitMd) + 1) :
                    /\ SubSeq(s, k, k + Len(LitMd) - 1) = LitMd
                    /\ \A m \in 1..(k - 1) : SubSeq(s, m, m + Len(LitMd) - 1) # LitMd
         IN SubSeq(s, 1, i - 1) \o SubSeq(s, i + Len(LitMd), Len(s))
    ELSE s

\* s.replace(/\s+/g, r)
RECURSIVE ReplaceSpaceRunsWith(_, _)
ReplaceSpaceRunsWith(s, r) ==
  IF s = <<>> THEN <<>>
  ELSE IF IsSpace(Head(s))
    THEN r \o ReplaceSpaceRunsWith(DropSpaces(Tail(s)), r)
    ELSE <<Head(s)>> \o ReplaceSpaceRunsWith(Tail(s), r)

\* arr.includes(x)
InSeq(x, arr) == \E i \in 1..Len(arr) : arr[i] = x

\* the names of a listing
NamesOf(listing) == [i \in 1..Len(listing) |-> listing[i].name]

\* fs.readdirSync(projectDir).filter(f => f.endsWith('.md'))
MdFiles(listing) == SelectSeq(NamesOf(listing), EndsWithMd)

\* findIndexCandidate: const variations = [...]
Variations(projectName) ==
  <<LitWikiMd,
    LitIndexMd,
    projectName \o LitMd,
    ReplaceSpaceRunsWith(projectName, <<"_">>) \o LitMd,
    ReplaceSpaceRunsWith(projectName, <<"-">>) \o LitMd,
    ReplaceSpaceRunsWith(projectName, <<>>) \o LitMd>>

\* findIndexCandidate: const nameVariations = [...]
NameVariations(projectName) ==
  <<ReplaceSpaceRunsWith(ToLowerCase(projectName), <<>>),
    ReplaceSpaceRunsWith(ToLowerCase(projectName), <<"_">>),
    ReplaceSpaceRunsWith(ToLowerCase(projectName), <<"-">>)>>

\* a result of findIndexCandidate: <<>> for null, <<name>> for a file name
NullCandidate == <<>>

\* an exact search that takes the first file of the listing that is one of
\* the variations, whatever the place of the variation
ExactMatchInListingOrder(vs, k, mdFiles) ==
  IF \E i \in 1..Len(mdFiles) : InSeq(mdFiles[i], vs)
    THEN <<mdFiles[CHOOSE i \in 1..Len(mdFiles) :
                     /\ InSeq(mdFiles[i], vs)
                     /\ \A j \in 1..(i - 1) : ~InSeq(mdFiles[j], vs)]>>
    ELSE NullCandidate

\* for (const candidate of variations) if (files.includes(candidate)) ...
RECURSIVE ExactMatch(_, _, _)
ExactMatch(vs, k, mdFiles) ==
  IF k > Len(vs) THEN NullCandidate
  ELSE IF InSeq(vs[k], mdFiles) THEN <<vs[k]>>
  ELSE ExactMatch(vs, k + 1, mdFiles)

\* for (const file of files) if (variationsLower.includes(file.toLowerCase())) ...
RECURSIVE CaseInsensitiveMatch(_, _, _)
CaseInsensitiveMatch(mdFiles, k, vs) ==
  IF k > Len(mdFiles) THEN NullCandidate
  ELSE IF \E n \in 1..Len(vs) : ToLowerCase(vs[n]) = ToLowerCase(mdFiles[k])
    THEN <<mdFiles[k]>>
  ELSE CaseInsensitiveMatch(mdFiles, k + 1, vs)

\* for (const file of files) for (const nameVar of nameVariations) ...
RECURSIVE PartialMatch(_, _, _)
PartialMatch(mdFiles, k, nameVars) ==
  IF k > Len(mdFiles) THEN NullCandidate
  ELSE IF \E n \in 1..Len(nameVars) :
            \/ ReplaceFirstMd(ToLowerCase(mdFiles[k])) = nameVars[n]
            \/ Includes(ReplaceFirstMd(ToLowerCase(mdFiles[k])), nameVars[n])
    THEN <<mdFiles[k]>>
  ELSE PartialMatch(mdFiles, k + 1, nameVars)

\* return files.length > 0 ? files[0] : null
FirstFile(mdFiles) == IF Len(mdFiles) > 0 THEN <<mdFiles[1]>> ELSE NullCandidate

\* findIndexCandidate(projectDir, projectName), files being the .md files
\* of projectDir
findIndexCandidate(mdFiles, projectName) ==
  IF ExactMatch(Variations(projectName), 1, mdFiles) # NullCandidate
    THEN ExactMatch(Variations(projectName), 1, mdFiles)
  ELSE IF CaseInsensitiveMatch(mdFiles, 1, Variations(projectName)) # NullCandidate
    THEN CaseInsensitiveMatch(mdFiles, 1, Variations(projectName))
  ELSE IF PartialMatch(mdFiles, 1, NameVariations(projectName)) # NullCandidate
    THEN PartialMatch(mdFiles, 1, NameVariations(projectName))
  ELSE FirstFile(mdFiles)

\* projectMetadata[projectId] after metadata.forEach(p => projectMetadata[
\* p.identifier] = p.name): the name of the last entry with the identifier,
\* or <<>> when there is none
RECURSIVE MetadataName(_, _, _)
MetadataName(metadata, k, projectId) ==
  IF k = 0 THEN <<>>
  ELSE IF metadata[k].identifier = projectId THEN metadata[k].name
  ELSE MetadataName(metadata, k - 1, projectId)

\* const projectName = projectMetadata[projectId] || projectId
ProjectName(projectId) ==
  IF MetadataName(projectMetadata, Len(projectMetadata), projectId) # <<>>
    THEN MetadataName(projectMetadata, Len(projectMetadata), projectId)
    ELSE projectId

\* a read that takes the content of the first file of the directory
ContentOfFirstFile(listing, name) == listing[1].content

\* fs.readFileSync(candidatePath, 'utf8')
ContentOf(listing, name) ==
  listing[CHOOSE i \in 1..Len(listing) : listing[i].name = name].content

\* the basic index: a heading, then one line per .md file
BasicIndexLine(file) ==
  <<"-", " ", "[">> \o ReplaceFirstMd(file) \o <<"]", "(">> \o file \o <<")", "\n">>

BasicIndex(projectName, mdFiles) ==
  <<"#", " ">> \o projectName \o LitPagesHeader
    \o Flatten([i \in 1..Len(mdFiles) |-> BasicIndexLine(mdFiles[i])])

\* a write that leaves the directory as it was
ListingsUnwritten(listing, text) == {listing}

\* the listings fs.writeFileSync(indexPath, content) can leave: an existing
\* Index.md keeps its place, a new one appears anywhere in the listing
ListingsAfterWrite(listing, text) ==
  IF InSeq(LitIndexMd, NamesOf(listing))
    THEN {[i \in 1..Len(listing) |->
             IF listing[i].name = LitIndexMd
               THEN [name |-> LitIndexMd, content |-> text]
               ELSE listing[i]]}
    ELSE {SubSeq(listing, 1, k) \o <<[name |-> LitIndexMd, content |-> text]>>
            \o SubSeq(listing, k + 1, Len(listing)) : k \in 0..Len(listing)}

\* One round of projectDirs.forEach in createProjectIndexes: find the
\* candidate, copy it to Index.md or write the basic index, push the project.
CreateProjectIndex ==
  /\ ixPos <= Len(outDirs)
  /\ \E projectId \in {outDirs[ixPos]} :
     \E projectName \in {ProjectName(projectId)} :
     \E mdFiles \in {MdFiles(dirFiles[projectId])} :
     \E candidate \in {findIndexCandidate(mdFiles, projectName)} :
       /\ IF candidate # NullCandidate /\ candidate # <<LitIndexMd>>
            THEN \E c \in {ContentOf(dirFiles[projectId], candidate[1])} :
                 \E after \in ListingsAfterWrite(dirFiles[projectId], c) :
                   /\ dirFiles' = [dirFiles EXCEPT ![projectId] = after]
                   /\ ixWrites' = Append(ixWrites, [dir |-> projectId,
                                                    name |-> LitIndexMd,
                                                    content |-> c])
          ELSE IF candidate = <<LitIndexMd>>
            THEN UNCHANGED <<dirFiles, ixWrites>>
          ELSE \E c \in {BasicIndex(projectName, mdFiles)} :
               \E after \in ListingsAfterWrite(dirFiles[projectId], c) :
                 /\ dirFiles' = [dirFiles EXCEPT ![projectId] = after]
                 /\ ixWrites' = Append(ixWrites, [dir |-> projectId,
                                                  name |-> LitIndexMd,
                                                  content |-> c])
       /\ ixProjectList' = Append(ixProjectList, [id |-> projectId,
                                              name |-> projectName])
       /\ ixCandidates' = Append(ixCandidates, candidate)
  /\ ixPos' = ixPos + 1
  /\ UNCHANGED <<now, thVars, hsVars, rq, crVars, lkVars, outDirs,
                 projectMetadata, mainIndex, ixRun, ixDone, ixBefore>>

\* the collation order of the characters the names are written with, case
\* aside
LocaleOrder ==
  <<" ", "_", "-", "a", "b", "i", "p", "q", "r", "w", "x", "z">>

LocaleRank(c) ==
  CHOOSE k \in 1..Len(LocaleOrder) : LocaleOrder[k] = LowerChar(c)

\* a.localeCompare(b) < 0 on the letters alone: the first difference decides,
\* and a proper prefix comes first
RECURSIVE PrimaryLess(_, _)
PrimaryLess(a, b) ==
  IF b = <<>> THEN FALSE
  ELSE IF a = <<>> THEN TRUE
  ELSE IF LocaleRank(Head(a)) # LocaleRank(Head(b))
    THEN LocaleRank(Head(a)) < LocaleRank(Head(b))
  ELSE PrimaryLess(Tail(a), Tail(b))

\* between names that differ in case only, the first difference decides and
\* the lower-case letter comes first
RECURSIVE CaseLess(_, _)
CaseLess(a, b) ==
  IF a = <<>> \/ b = <<>> THEN FALSE
  ELSE IF Head(a) # Head(b) THEN Head(a) = LowerChar(Head(a))
  ELSE CaseLess(Tail(a), Tail(b))

\* a.localeCompare(b) < 0
LocaleLess(a, b) ==
  \/ PrimaryLess(a, b)
  \/ (~PrimaryLess(b, a) /\ CaseLess(a, b))

\* a project list that is left in the order of the directory listing
SortedAsListed(list) == list

\* projectList.sort((a, b) => a.name.localeCompare(b.name)): the sort is
\* stable, so every entry goes after the entries that are not greater
RECURSIVE InsertSorted(_, _)
InsertSorted(sorted, e) ==
  IF sorted = <<>> THEN <<e>>
  ELSE IF LocaleLess(e.name, Head(sorted).name)
    THEN <<e>> \o sorted
  ELSE <<Head(sorted)>> \o InsertSorted(Tail(sorted), e)

RECURSIVE SortByName(_)
SortByName(list) ==
  IF list = <<>> THEN <<>>
  ELSE InsertSorted(SortByName(SubSeq(list, 1, Len(list) - 1)), list[Len(list)])

\* content += `- [${project.name}](${project.id}/Index.md)\n`
MainIndexLine(project) ==
  <<"-", " ", "[">> \o project.name \o <<"]", "(">> \o project.id
    \o LitIndexPath \o <<")", "\n">>

\* createMainIndex(projectList), called when createProjectIndexes returns
CreateMainIndex ==
  /\ ixPos = Len(outDirs) + 1
  /\ ~ixDone
  /\ \E sorted \in {SortByName(ixProjectList)} :
       /\ ixProjectList' = sorted
       /\ mainIndex' = <<LitMainHeader
                           \o Flatten([i \in 1..Len(sorted) |->
                                         MainIndexLine(sorted[i])])>>
  /\ ixDone' = TRUE
  /\ UNCHANGED <<now, thVars, hsVars, rq, crVars, lkVars, outDirs, dirFiles,
                 projectMetadata, ixPos, ixCandidates, ixWrites, ixRun,
                 ixBefore>>

\* node create-indexes.js is run once more on the output directory as the
\* run before left it: the sidecar is loaded again, the project list and
\* the histories of the run start empty
RunAgain ==
  /\ ixDone
  /\ ixRun < MaxRuns
  /\ ixRun' = ixRun + 1
  /\ ixDone' = FALSE
  /\ ixPos' = 1
  /\ ixProjectList' = <<>>
  /\ ixCandidates' = <<>>
  /\ ixWrites' = <<>>
  /\ ixBefore' = <<[dirFiles |-> dirFiles, mainIndex |-> mainIndex]>>
  /\ UNCHANGED <<now, thVars, hsVars, rq, crVars, lkVars, outDirs, dirFiles,
                 projectMetadata, mainIndex>>

----------------------------------------------------------------------------
(* Specifications *)

\* the Throttle's variables when no Throttle is modelled
ThrottleIdle ==
  /\ now = StartTime
  /\ ThrottleInit
  /\ started = <<>>
  /\ nextId = 0

\* the crawl's variables when no crawl is modelled
CrawlIdle ==
  /\ server = [sizes |-> <<>>, pages |-> <<>>, atts |-> <<>>]
  /\ projects = <<>>
  /\ page = 0
  /\ inflight = {}
  /\ retryTimers = {}
  /\ delivered = <<>>
  /\ sidecar = <<>>
  /\ files = {}
  /\ used = {}
  /\ reqLog = [last |-> NoTimer, close |-> FALSE, direct |-> FALSE]
  /\ listLog = <<>>
  /\ listSeen = 0
  /\ faults = 0

\* the markdown file's variables when fix-links.js is not modelled
LinksIdle ==
  /\ doc = <<>>
  /\ content = <<>>
  /\ configUrl = <<>>
  /\ currentProject = <<>>
  /\ dirs = <<>>
  /\ attFiles = {}
  /\ passes = 0
  /\ warnings = 0

\* the index variables when create-indexes.js is not modelled
IndexIdle ==
  /\ outDirs = <<>>
  /\ dirFiles = <<>>
  /\ projectMetadata = <<>>
  /\ ixProjectList = <<>>
  /\ ixPos = 1
  /\ ixCandidates = <<>>
  /\ ixWrites = <<>>
  /\ mainIndex = <<>>
  /\ ixRun = 1
  /\ ixDone = FALSE
  /\ ixBefore = <<>>

InitThrottle ==
  /\ ThrottleIdle
  /\ rq = RqIdle
  /\ CrawlIdle
  /\ LinksIdle
  /\ IndexIdle

NextThrottle == Tick \/ Enqueue \/ ThrottleFire

SpecThrottle == InitThrottle /\ [][NextThrottle]_vars

\* The Throttle under the scheduling of the event loop: the clock goes on,
\* and a timer whose time has come is fired.  Calls of enqueue from outside
\* are under no obligation.
NextThrottleLive == Tick \/ TickToTimer \/ Enqueue \/ ThrottleFire

SpecThrottleLive ==
  /\ InitThrottle
  /\ [][NextThrottleLive]_vars
  /\ WF_vars(Tick \/ TickToTimer)
  /\ WF_vars(ThrottleFire)

InitRetry ==
  /\ ThrottleIdle
  /\ RetryInit
  /\ CrawlIdle
  /\ LinksIdle
  /\ IndexIdle

NextRetry == RetryRespond \/ RetryTimerFire

SpecRetry == InitRetry /\ [][NextRetry]_vars

\* getProjects against a listing source that holds k full pages and then a
\* shorter one, with a callback that records its argument
InitListing ==
  /\ \E k \in 0..MaxFullPages, f \in FinalSizes :
       server = [sizes |-> [i \in 1..(k + 1) |->
                              IF i <= k THEN NB_PROJECTS_PER_PAGE ELSE f],
                 pages |-> <<>>, atts |-> <<>>]
  /\ CrawlStart
  /\ LinksIdle
  /\ IndexIdle

NextListing ==
  Tick \/ TaskFire \/ RespondTransient \/ RetryFire \/ RespondListRecording

SpecListing == InitListing /\ [][NextListing]_vars

RECURSIVE SumTo(_, _)
SumTo(f, n) == IF n = 0 THEN 0 ELSE f[n] + SumTo(f, n - 1)

\* a whole run of main.js against a server with at most MaxProjects projects
InitCrawl ==
  /\ \E n \in 0..MaxProjects :
       \E pg \in [1..n -> 0..MaxPages], at \in AttLists :
         /\ SumTo(pg, n) <= MaxWikiPages
         /\ server = [sizes |-> <<n>>, pages |-> pg, atts |-> at]
  /\ CrawlStart
  /\ LinksIdle
  /\ IndexIdle

NextCrawl ==
  \/ Tick
  \/ TaskFire
  \/ RespondTransient
  \/ RetryFire
  \/ RespondListMain
  \/ RespondIndex
  \/ RespondPage
  \/ RespondAtt

SpecCrawl == InitCrawl /\ [][NextCrawl]_vars

\* The markdown files fix-links.js is run on.  A file is made of at most
\* three pieces; a piece is plain text, a [[...]] reference, a markdown link
\* to a wiki page, or a markdown image or link to an attachment.
ServerUrl == <<"h", ":", "/", "/", "r", ".", "o">>
OtherHosts == {<<"h", ":", "/", "/", "r", "x", "o">>, <<"g", ":", "/", "/", "r", ".", "o">>}
ProjectNames == {<<"p">>, <<"q">>}
PageNames == {<<"a">>, <<"a", " ", "b">>, <<"a", " ", " ", "b">>}

Piece(kind, text, host, project, name, anchor) ==
  [kind |-> kind, text |-> text, host |-> host, project |-> project,
   name |-> name, anchor |-> anchor]

PlainPieces ==
  {Piece("plain", t, <<>>, <<>>, <<>>, <<>>) : t \in {<<"x">>, <<"x", "\n">>, <<"(", "x", ")", " ">>}}

WikiNames ==
  PageNames
    \cup {pr \o <<":">> \o pg : pr \in ProjectNames, pg \in PageNames}
    \cup {pr \o <<":">> \o pg \o <<":", "b">> : pr \in ProjectNames, pg \in PageNames}

WikiPieces == {Piece("wiki", <<>>, <<>>, <<>>, n, <<>>) : n \in WikiNames}

LinkPieces ==
  {Piece("link", <<"t">>, h, pr, pg, an) :
     h \in {ServerUrl} \cup OtherHosts, pr \in ProjectNames,
     pg \in {<<"a">>, <<"b", "_", "c">>}, an \in {<<>>, <<"#", "s">>}}

\* a [[...]] reference written inside another pair of double brackets
NestedPieces == {Piece("nested", <<>>, <<>>, <<>>, n, <<>>) : n \in {<<"a">>, <<"a", " ", "b">>}}

\* an attachment reference: anchor holds <id>/ or download/<id>/
AttachmentPieces ==
  {Piece(k, <<"i">>, h, <<>>, f, d) :
     k \in {"image", "attlink"}, h \in {ServerUrl, <<"h", ":", "/", "/", "r", "x", "o">>},
     f \in {<<"f">>, <<"g", "%", "2", "0", "h">>}, d \in {<<"4", "2", "/">>, <<"d", "o", "w", "n", "l", "o", "a", "d", "/", "4", "2", "/">>}}

Render(pc) ==
  CASE pc.kind = "plain" -> pc.text
    [] pc.kind = "wiki" -> <<"[", "[">> \o pc.name \o <<"]", "]">>
    [] pc.kind = "nested" ->
         <<"[", "[", "[", "[">> \o pc.name \o <<"]", "]", "]", "]">>
    [] pc.kind = "link" ->
         <<"[">> \o pc.text \o <<"]", "(">> \o pc.host \o LitProjects
           \o pc.project \o LitWiki \o pc.name \o pc.anchor \o <<")">>
    [] pc.kind = "image" ->
         <<"!", "[">> \o pc.text \o <<"]", "(">> \o pc.host \o LitAttachments
           \o pc.anchor \o pc.name \o <<")">>
    [] pc.kind = "attlink" ->
         <<"[">> \o pc.text \o <<"]", "(">> \o pc.host \o LitAttachments
           \o pc.anchor \o pc.name \o <<")">>

RenderAll(d) == Flatten([i \in 1..Len(d) |-> Render(d[i])])

DocsOf(pieces) ==
  {<<a>> : a \in pieces}
    \cup {<<t, a>> : t \in PlainPieces, a \in pieces}
    \cup {<<a, t>> : a \in pieces, t \in PlainPieces}
    \cup {<<a, t, b>> : a \in pieces, t \in {Piece("plain", <<"x", "\n">>, <<>>, <<>>, <<>>, <<>>)},
                        b \in pieces}

\* the attachments/ directories the export left behind
AttachmentTrees ==
  { {},
    {<< <<"p">>, <<"f">> >>},
    {<< <<"q">>, <<"f">> >>, << <<"r">>, <<"f">> >>},
    {<< <<"p">>, <<"g", " ", "h">> >>, << <<"q">>, <<"g", " ", "h">> >>} }

InitLinks ==
  /\ ThrottleIdle
  /\ rq = RqIdle
  /\ CrawlIdle
  /\ configUrl \in {ServerUrl, ServerUrl \o <<"/">>}
  /\ currentProject \in ProjectNames
  /\ \/ /\ doc \in DocsOf(WikiPieces) \cup DocsOf(LinkPieces)
                     \cup DocsOf(NestedPieces)
        /\ dirs = << <<"p">>, <<"q">> >>
        /\ attFiles = {}
     \/ /\ doc \in DocsOf(AttachmentPieces)
        /\ dirs \in {<< <<"p">>, <<"q">>, <<"r">> >>, << <<"r">>, <<"q">>, <<"p">> >>}
        /\ attFiles \in AttachmentTrees
  /\ content = RenderAll(doc)
  /\ passes = 0
  /\ warnings = 0
  /\ IndexIdle

NextLinks == ProcessMarkdownFile

SpecLinks == InitLinks /\ [][NextLinks]_vars

\* The output directory create-indexes.js is run on.
DirIds == {<<"p">>, <<"q">>, <<"r">>}

\* the files a project directory may hold; the content of a file tells the
\* files apart
FilePool ==
  {<<"W", "i", "k", "i", ".", "m", "d">>, <<"I", "n", "d", "e", "x", ".", "m", "d">>, <<"A", " ", "b", ".", "m", "d">>, <<"A", "_", "b", ".", "m", "d">>, <<"A", "-", "b", ".", "m", "d">>, <<"A", "b", ".", "m", "d">>,
   <<"w", "i", "k", "i", ".", "m", "d">>, <<"a", "_", "b", ".", "m", "d">>, <<"x", "a", "-", "b", "x", ".", "m", "d">>, <<"z", ".", "m", "d">>, <<"n", ".", "t", "x", "t">>}

FileOf(name) == [name |-> name, content |-> <<"#">> \o name]

\* the listings of at most n files of the pool, in any order
RECURSIVE ListingsUpTo(_)
ListingsUpTo(n) ==
  IF n = 0 THEN {<<>>}
  ELSE ListingsUpTo(n - 1)
         \cup {Append(l, FileOf(f)) :
                 l \in {m \in ListingsUpTo(n - 1) : Len(m) = n - 1},
                 f \in FilePool}

Distinct(l) == \A i, j \in 1..Len(l) : l[i] = l[j] => i = j

\* the sidecars main.js may have left
MetadataOf(id, name) == [identifier |-> id, name |-> name]

CandidateMetadata ==
  {<<>>,
   <<MetadataOf(<<"p">>, <<"A", " ", "b">>)>>,
   <<MetadataOf(<<"p">>, <<"A", " ", " ", "b">>)>>}

ListMetadata ==
  {<<>>,
   <<MetadataOf(<<"p">>, <<"B">>), MetadataOf(<<"q">>, <<"a", "b">>),
     MetadataOf(<<"r">>, <<"A", "b">>)>>,
   <<MetadataOf(<<"q">>, <<"A", "b">>), MetadataOf(<<"p">>, <<"a", "b">>)>>,
   <<MetadataOf(<<"q">>, <<"B">>), MetadataOf(<<"r">>, <<"a", " ", "b">>),
     MetadataOf(<<"q">>, <<"A", " ", "b">>)>>}

SmallListings ==
  {<<>>, <<FileOf(<<"I", "n", "d", "e", "x", ".", "m", "d">>)>>, <<FileOf(<<"z", ".", "m", "d">>), FileOf(<<"W", "i", "k", "i", ".", "m", "d">>)>>}

\* the sequences of at most n distinct directories
DirListings(n) ==
  {d \in UNION {[1..k -> DirIds] : k \in 0..n} : Distinct(d)}

InitIndex ==
  /\ ThrottleIdle
  /\ rq = RqIdle
  /\ CrawlIdle
  /\ LinksIdle
  /\ \/ /\ outDirs = << <<"p">> >>
        /\ \E l \in {m \in ListingsUpTo(MaxFiles) : Distinct(m)} :
             dirFiles = [d \in DirIds |-> IF d = <<"p">> THEN l ELSE <<>>]
        /\ projectMetadata \in CandidateMetadata
     \/ /\ outDirs \in DirListings(MaxDirs)
        /\ dirFiles \in [DirIds -> SmallListings]
        /\ \A d \in DirIds : ~InSeq(d, outDirs) => dirFiles[d] = <<>>
        /\ projectMetadata \in ListMetadata
  /\ ixProjectList = <<>>
  /\ ixPos = 1
  /\ ixCandidates = <<>>
  /\ ixWrites = <<>>
  /\ mainIndex = <<>>
  /\ ixRun = 1
  /\ ixDone = FALSE
  /\ ixBefore = <<>>

NextIndex == CreateProjectIndex \/ CreateMainIndex \/ RunAgain

SpecIndex == InitIndex /\ [][NextIndex]_vars

----------------------------------------------------------------------------
\* C1: every HTTP request of a run (listing page, wiki index, wiki page,
\* attachment, and every retry of any of them) is started from inside a task
\* dequeued by the Throttle, so any two consecutive request starts of the run
\* are at least minIntervalMs apart.
C1_AllRequestsThrottled ==
  /\ ~reqLog.close
  /\ ~reqLog.direct

\* C3: a failed network call only skips its own unit; whatever the answers to
\* the listing requests were, once the run is over getProjects has invoked
\* its callback with the projects accumulated so far and the sidecar holds
\* them.
C3_ListingAlwaysCompletes ==
  Quiescent =>
    /\ delivered = <<projects>>
    /\ sidecar = <<projects>>

\* C7: against a listing source that answers with k pages of exactly 25
\* entries and then one shorter page, getProjects issues exactly k+1 listing
\* requests, at offsets 0, 25, ..., 25k in that order, each one after the
\* result of the one before was received, and hands its callback the
\* concatenation of the pages.
C7_Pagination ==
  faults = 0 =>
    LET k == Len(server.sizes) - 1
        total == 25 * k + server.sizes[k + 1]
    IN /\ Len(listLog) <= k + 1
       /\ \A i \in 1..Len(listLog) :
            listLog[i] = [offset |-> 25 * (i - 1), seen |-> i - 1]
       /\ Len(delivered) <= 1
       /\ delivered # <<>> =>
            /\ Len(listLog) = k + 1
            /\ delivered[1] = [j \in 1..total |-> j]

\* page sizes 25, 25, 7: three requests at offsets 0, 25, 50 and 57 entries
C7_Witness ==
  /\ faults = 0
  /\ server.sizes = <<25, 25, 7>>
  /\ Len(delivered) = 1
  /\ Len(delivered[1]) = 57
  /\ [i \in 1..Len(listLog) |-> listLog[i].offset] = <<0, 25, 50>>

\* C8: for each of the four kinds of fetch, a final answer whose status is
\* not 200 contributes nothing: no callback is handed data from it and no
\* page or attachment file is written from its body.
C8_Non200ContributesNothing ==
  /\ \A u \in used : u.status = 200
  /\ \A f \in files : f.status = 200

----------------------------------------------------------------------------
\* C2: the start times of any two consecutively executed tasks of one
\* Throttle differ by at least minIntervalMs, whenever they were enqueued.
C2_MinGap ==
  \A i \in 2..Len(started) :
    started[i].at - started[i-1].at >= minIntervalMs

\* Two tasks ran exactly minIntervalMs apart, the second one having been
\* enqueued by the first while it ran; and a task enqueued while a timer
\* was pending has run too.
C2_Witness ==
  /\ Len(started) >= 3
  /\ started[1].inner
  /\ started[2].at - started[1].at = minIntervalMs
  /\ started[3].at - started[2].at > minIntervalMs

----------------------------------------------------------------------------
ExpectedDelays(base, k) == [n \in 1..k |-> base * Pow2(n - 1)]

\* C4: when requestFn reports a transient outcome on its first K invocations
\* (K <= maxRetries) and a non-transient one on invocation K+1, retryRequest
\* has invoked requestFn exactly K+1 times, has waited baseDelay*2^(n-1)
\* before the n-th retry, and has resolved with the last outcome.
C4_RetryThenSuccess ==
  (rq.state # "idle" /\ rq.last # NoOutcome /\ ~TransientOutcome(rq.last)) =>
     /\ rq.state = "resolved"
     /\ rq.calls = Len(rq.delays) + 1
     /\ rq.delays = ExpectedDelays(rq.baseDelay, Len(rq.delays))
     /\ rq.nTransient = Len(rq.delays)
     /\ rq.result = rq.last
     /\ rq.resolves = 1

\* three transient outcomes, then HTTP 200: four invocations, delays
\* baseDelay, 2*baseDelay, 4*baseDelay
C4_Witness ==
  /\ rq.state = "resolved"
  /\ rq.result.status = 200
  /\ rq.calls = 4
  /\ rq.delays = <<defaultBaseDelay, 2 * defaultBaseDelay, 4 * defaultBaseDelay>>

\* C5: when requestFn always reports a transient outcome, retryRequest makes
\* exactly maxRetries retries (maxRetries + 1 invocations), then resolves
\* once with the last outcome, unchanged.
C5_Exhausted ==
  /\ rq.state # "idle" => rq.calls <= rq.maxRetries + 1
  /\ (rq.state = "resolved" /\ TransientOutcome(rq.last)) =>
       /\ rq.calls = rq.maxRetries + 1
       /\ Len(rq.delays) = rq.maxRetries
       /\ rq.attempt = rq.maxRetries
       /\ rq.result = rq.last
       /\ rq.resolves = 1

\* maxRetries = 2, three transient outcomes: resolved with the third one
C5_Witness ==
  /\ rq.state = "resolved"
  /\ rq.maxRetries = 2
  /\ rq.calls = 3
  /\ rq.result.status = 503

\* C6: an outcome that is not transient is never retried: the step that
\* receives it resolves with it and arms no timer, so requestFn is not
\* invoked again; HTTP 401 on the first invocation means one request in all.
C6_NoRetryOfTerminal ==
  [][(rq.state = "inflight" /\ rq'.last # NoOutcome /\ ~TransientOutcome(rq'.last)) =>
       /\ rq'.state = "resolved"
       /\ rq'.result = rq'.last
       /\ rq'.calls = rq.calls
       /\ rq'.delays = rq.delays
       /\ rq'.resolves = 1]_vars

\* HTTP 401 on the first invocation
C6_Witness ==
  /\ rq.state = "resolved"
  /\ rq.result.status = 401
  /\ rq.calls = 1
  /\ rq.maxRetries > 0

----------------------------------------------------------------------------
\* the pieces of the file are all of the given kinds, and fix-links.js has
\* processed the file once
ProcessedOnce(kinds) ==
  /\ passes = 1
  /\ \A i \in 1..Len(doc) : doc[i].kind \in kinds

\* [[P]] becomes [P](P'.md); [[proj:P]], proj running up to the first colon,
\* becomes [P](../proj/P'.md)
ExpectedWikiSyntax(name) ==
  LET c == IndexOf(name, ":", 1)
      proj == SubSeq(name, 1, c - 1)
      P == SubSeq(name, c + 1, Len(name))
  IN IF c = 0
       THEN <<"[">> \o name \o <<"]", "(">> \o ReplaceSpaceRuns(name)
              \o LitMd \o <<")">>
       ELSE <<"[">> \o P \o <<"]", "(">> \o LitUp \o proj \o <<"/">>
              \o ReplaceSpaceRuns(P) \o LitMd \o <<")">>

\* C9: in a file of plain text and [[...]] references, every [[P]] without a
\* colon has become [P](P'.md), P' being P with each whitespace run replaced by
\* an underscore, every [[proj:P]] has become [P](../proj/P'.md), and the plain
\* text is as it was.
C9_WikiSyntaxRewritten ==
  ProcessedOnce({"plain", "wiki"}) =>
    content = Flatten([i \in 1..Len(doc) |->
                         IF doc[i].kind = "wiki"
                           THEN ExpectedWikiSyntax(doc[i].name)
                           ELSE doc[i].text])

\* a link to a wiki page of the configured server, made relative
ExpectedLink(pc) ==
  IF pc.host = ServerUrl
    THEN <<"[">> \o pc.text \o <<"]", "(">>
           \o (IF pc.project = currentProject THEN <<>>
               ELSE LitUp \o pc.project \o <<"/">>)
           \o pc.name \o LitMd \o pc.anchor \o <<")">>
    ELSE Render(pc)

\* C10: in a file of plain text and markdown links to wiki pages, a link to
\* <server>/projects/<project>/wiki/<page>[#anchor] has become a link to
\* <page>.md[#anchor] when <project> is the directory of the file and to
\* ../<project>/<page>.md[#anchor] otherwise, with the same link text, and a
\* link to another host is as it was.
C10_AbsoluteWikiLinks ==
  ProcessedOnce({"plain", "link"}) =>
    content = Flatten([i \in 1..Len(doc) |->
                         IF doc[i].kind = "link"
                           THEN ExpectedLink(doc[i])
                           ELSE doc[i].text])

\* a file of the project p processed once, with an anchored link to a page of
\* the project q on the server and a link to a host that differs from the
\* server's in the one character a bare dot would match
C10_Witness ==
  /\ passes = 1
  /\ currentProject = <<"p">>
  /\ configUrl = ServerUrl \o <<"/">>
  /\ doc = <<Piece("link", <<"t">>, ServerUrl, <<"q">>, <<"b", "_", "c">>, <<"#", "s">>),
             Piece("plain", <<"x", "\n">>, <<>>, <<>>, <<>>, <<>>),
             Piece("link", <<"t">>, <<"h", ":", "/", "/", "r", "x", "o">>, <<"p">>, <<"a">>, <<>>)>>
  /\ content = <<"[", "t", "]", "(", ".", ".", "/", "q", "/", "b", "_", "c", ".", "m", "d", "#", "s", ")", "x", "\n", "[", "t", "]", "(", "h", ":", "/", "/", "r", "x", "o", "/", "p", "r", "o", "j", "e", "c", "t", "s", "/", "p", "/", "w", "i", "k", "i", "/", "a", ")">>

----------------------------------------------------------------------------
\* the directories that hold file F in their attachments/, by position in
\* the listing
HoldersOf(F) == {k \in 1..Len(dirs) : <<dirs[k], F>> \in attFiles}

\* the target the resolution order gives an attachment reference of the
\* server, or <<>> when the file is found nowhere
ResolvedTarget(pc) ==
  LET F == DecodeURIComponent(pc.name)
      first == CHOOSE k \in HoldersOf(F) : \A m \in HoldersOf(F) : k <= m
  IN IF <<currentProject, F>> \in attFiles
       THEN LitLocalAtt \o EncodeURIComponent(F)
     ELSE IF HoldersOf(F) # {}
       THEN LitUp \o dirs[first] \o LitUpAtt \o EncodeURIComponent(F)
     ELSE <<>>

ExpectedImage(pc) ==
  IF pc.host = ServerUrl /\ ResolvedTarget(pc) # <<>>
    THEN <<"!", "[">> \o pc.text \o <<"]", "(">> \o ResolvedTarget(pc) \o <<")">>
    ELSE Render(pc)

\* the image pieces of the file that point to the server and are found nowhere
Unresolved ==
  {i \in 1..Len(doc) : /\ doc[i].kind = "image"
                       /\ doc[i].host = ServerUrl
                       /\ ResolvedTarget(doc[i]) = <<>>}

\* C11: in a file of plain text and images, an image of
\* <server>/attachments/[download/]<id>/<filename> points to
\* attachments/<encoded F> when the decoded name F is in the attachments/ of
\* the file's project, else to ../<dir>/attachments/<encoded F> for the first
\* directory in listing order that holds F, else it is as it was and one
\* warning was logged for it.
C11_AttachmentResolution ==
  ProcessedOnce({"plain", "image"}) =>
    /\ content = Flatten([i \in 1..Len(doc) |->
                            IF doc[i].kind = "image"
                              THEN ExpectedImage(doc[i])
                              ELSE doc[i].text])
    /\ warnings = Cardinality(Unresolved)

\* a file of project p: f is held by r and q, r listed first, and g h by
\* nobody; the first image points into r, the second is as it was with one
\* warning
C11_Witness ==
  /\ passes = 1
  /\ currentProject = <<"p">>
  /\ dirs = << <<"r">>, <<"q">>, <<"p">> >>
  /\ attFiles = {<< <<"q">>, <<"f">> >>, << <<"r">>, <<"f">> >>}
  /\ doc = <<Piece("image", <<"i">>, ServerUrl, <<>>, <<"f">>, <<"d", "o", "w", "n", "l", "o", "a", "d", "/", "4", "2", "/">>),
             Piece("plain", <<"x", "\n">>, <<>>, <<>>, <<>>, <<>>),
             Piece("image", <<"i">>, ServerUrl, <<>>, <<"g", "%", "2", "0", "h">>, <<"4", "2", "/">>)>>
  /\ content = <<"!", "[", "i", "]", "(", ".", ".", "/", "r", "/", "a", "t", "t", "a", "c", "h", "m", "e", "n", "t", "s", "/", "f", ")", "x", "\n", "!", "[", "i", "]", "(", "h", ":", "/", "/", "r", ".", "o", "/", "a", "t", "t", "a", "c", "h", "m", "e", "n", "t", "s", "/", "4", "2", "/", "g", "%", "2", "0", "h", ")">>
  /\ warnings = 1

ExpectedAttachmentLink(pc) ==
  IF pc.host = ServerUrl /\ ResolvedTarget(pc) # <<>>
    THEN <<"[">> \o pc.text \o <<"]", "(">> \o ResolvedTarget(pc) \o <<")">>
    ELSE Render(pc)

\* C12: in a file of plain text and non-image links to attachments, a link
\* [text](<server>/attachments/download/<id>/<filename>) whose decoded
\* filename is in the attachments/ of the file's project points to
\* attachments/<filename>, as an image would.
C12_PlainAttachmentLinks ==
  ProcessedOnce({"plain", "attlink"}) =>
    \A i \in 1..Len(doc) :
      (/\ doc[i].kind = "attlink"
       /\ doc[i].host = ServerUrl
       /\ <<currentProject, DecodeURIComponent(doc[i].name)>> \in attFiles)
        => content = Flatten([j \in 1..Len(doc) |->
                                IF doc[j].kind = "attlink"
                                  THEN ExpectedAttachmentLink(doc[j])
                                  ELSE doc[j].text])

\* C13: a second run over a file of plain text, [[...]] references and links
\* to wiki pages leaves the file as the first run left it.
C13_SecondPassChangesNothing ==
  [][(/\ passes = 1
      /\ \A i \in 1..Len(doc) : doc[i].kind \in {"plain", "wiki", "nested", "link"})
       => content' = content]_vars

----------------------------------------------------------------------------
\* the least number of a non-empty set of numbers
Least(S) == CHOOSE n \in S : \A m \in S : n <= m

\* the six candidate names of a project, in the order of their priority
CandidateNames(name) ==
  <<<<"W", "i", "k", "i", ".", "m", "d">>, <<"I", "n", "d", "e", "x", ".", "m", "d">>, name \o LitMd,
    ReplaceSpaceRunsWith(name, <<"_">>) \o LitMd,
    ReplaceSpaceRunsWith(name, <<"-">>) \o LitMd,
    ReplaceSpaceRunsWith(name, <<>>) \o LitMd>>

\* the lower-cased separator-normalised forms of a project name
NormalisedNames(name) ==
  {ReplaceSpaceRunsWith(ToLowerCase(name), sep) : sep \in {<<>>, <<"_">>, <<"-">>}}

\* the lower-cased name of a file without its .md suffix
LowerStem(f) == ToLowerCase(SubSeq(f, 1, Len(f) - Len(LitMd)))

ExactHits(fs, name) == {k \in 1..6 : InSeq(CandidateNames(name)[k], fs)}

LowerHits(fs, name) ==
  {i \in 1..Len(fs) :
     \E k \in 1..6 : ToLowerCase(fs[i]) = ToLowerCase(CandidateNames(name)[k])}

StemHits(fs, name) ==
  {i \in 1..Len(fs) :
     \E n \in NormalisedNames(name) :
       LowerStem(fs[i]) = n \/ Includes(LowerStem(fs[i]), n)}

ExpectedCandidate(fs, name) ==
  IF ExactHits(fs, name) # {} THEN <<CandidateNames(name)[Least(ExactHits(fs, name))]>>
  ELSE IF LowerHits(fs, name) # {} THEN <<fs[Least(LowerHits(fs, name))]>>
  ELSE IF StemHits(fs, name) # {} THEN <<fs[Least(StemHits(fs, name))]>>
  ELSE IF fs # <<>> THEN <<fs[1]>>
  ELSE <<>>

\* C14: what findIndexCandidate returns for a project directory is the first
\* hit of the four stages in their order: the first of the six candidate
\* names that is a file, else the first file equal to a candidate without
\* regard to case, else the first file whose lower-cased stem equals or
\* contains a normalised project name, else the first .md file; null only
\* when the directory has no .md file.
C14_StagedCandidate ==
  [][ixPos' = ixPos + 1 =>
       /\ ixCandidates'[ixPos] =
            ExpectedCandidate(MdFiles(dirFiles[outDirs[ixPos]]),
                              ProjectName(outDirs[ixPos]))
       /\ (ixCandidates'[ixPos] = <<>>
             <=> MdFiles(dirFiles[outDirs[ixPos]]) = <<>>)]_vars

\* project "A b" with the files z.md, xa-bx.md, a_b.md in that order: the
\* case-insensitive hit a_b.md wins over the partial hit and the first file
C14_Witness ==
  /\ outDirs = << <<"p">> >>
  /\ projectMetadata = <<MetadataOf(<<"p">>, <<"A", " ", "b">>)>>
  /\ ixPos = 2
  /\ SelectSeq(NamesOf(dirFiles[<<"p">>]), LAMBDA f : f # LitIndexMd)
       = <<<<"z", ".", "m", "d">>, <<"x", "a", "-", "b", "x", ".", "m", "d">>, <<"a", "_", "b", ".", "m", "d">>>>
  /\ ixCandidates = << <<<<"a", "_", "b", ".", "m", "d">>>> >>

\* the content of the file of a listing with the given name
FileContent(listing, name) ==
  listing[Least({i \in 1..Len(listing) : listing[i].name = name})].content

\* the files of a listing other than Index.md, in their order
OtherFiles(listing) == SelectSeq(listing, LAMBDA f : f.name # LitIndexMd)

\* C15: one round of createProjectIndexes writes, when the candidate is a
\* file other than Index.md, Index.md with the content of the candidate and
\* leaves the candidate as it was; when the candidate is Index.md it writes
\* nothing; no file but Index.md of the directory at hand is ever written.
C15_WriteEffect ==
  [][ixPos' = ixPos + 1 =>
       /\ (ixCandidates'[ixPos] \notin {<<>>, <<LitIndexMd>>} =>
             /\ Len(ixWrites') = Len(ixWrites) + 1
             /\ FileContent(dirFiles'[outDirs[ixPos]], LitIndexMd)
                  = FileContent(dirFiles[outDirs[ixPos]], ixCandidates'[ixPos][1])
             /\ FileContent(dirFiles'[outDirs[ixPos]], ixCandidates'[ixPos][1])
                  = FileContent(dirFiles[outDirs[ixPos]], ixCandidates'[ixPos][1]))
       /\ (ixCandidates'[ixPos] = <<LitIndexMd>> =>
             ixWrites' = ixWrites /\ dirFiles' = dirFiles)
       /\ \A d \in DirIds :
            /\ OtherFiles(dirFiles'[d]) = OtherFiles(dirFiles[d])
            /\ d # outDirs[ixPos] => dirFiles'[d] = dirFiles[d]
       /\ \A k \in (Len(ixWrites) + 1)..Len(ixWrites') :
            ixWrites'[k].name = LitIndexMd /\ ixWrites'[k].dir = outDirs[ixPos]]_vars

\* project "A b" with the files z.md and A_b.md: Index.md has been written
\* with the content of A_b.md, and A_b.md is as it was
C15_Witness ==
  /\ outDirs = << <<"p">> >>
  /\ projectMetadata = <<MetadataOf(<<"p">>, <<"A", " ", "b">>)>>
  /\ ixCandidates = << <<<<"A", "_", "b", ".", "m", "d">>>> >>
  /\ OtherFiles(dirFiles[<<"p">>]) = <<FileOf(<<"z", ".", "m", "d">>), FileOf(<<"A", "_", "b", ".", "m", "d">>)>>
  /\ ixWrites = <<[dir |-> <<"p">>, name |-> LitIndexMd,
                  content |-> FileOf(<<"A", "_", "b", ".", "m", "d">>).content]>>
  /\ FileContent(dirFiles[<<"p">>], LitIndexMd) = FileOf(<<"A", "_", "b", ".", "m", "d">>).content

\* the display names the sidecar allows for a directory: the names of its
\* entries for the identifier, the identifier when it has none
DisplayNames(id) ==
  IF \E k \in 1..Len(projectMetadata) : projectMetadata[k].identifier = id
    THEN {projectMetadata[k].name :
            k \in {m \in 1..Len(projectMetadata) : projectMetadata[m].identifier = id}}
    ELSE {id}

AllDisplayNames == UNION {DisplayNames(id) : id \in DirIds}

\* the orders in which n directories can be listed
Orders(n) == {f \in [1..n -> 1..n] : \A i, j \in 1..n : f[i] = f[j] => i = j}

\* an entry of the top-level index
Entry(name, id) ==
  <<"-", " ", "[">> \o name \o <<"]", "(">> \o id \o <<"/", "I", "n", "d", "e", "x", ".", "m", "d", ")", "\n">>

\* C16: the top-level Index.md is its header followed by exactly one entry
\* [<display name>](<id>/Index.md) per project directory, the display name
\* from the sidecar or, for an identifier the sidecar does not hold, the
\* identifier; no entry comes before an entry with a smaller display name.
C16_MainIndex ==
  mainIndex # <<>> =>
    \E order \in Orders(Len(outDirs)) :
      \E names \in [1..Len(outDirs) -> AllDisplayNames] :
        /\ \A i \in 1..Len(outDirs) : names[i] \in DisplayNames(outDirs[order[i]])
        /\ \A i, j \in 1..Len(outDirs) : i < j => ~LocaleLess(names[j], names[i])
        /\ mainIndex[1] =
             LitMainHeader
               \o Flatten([i \in 1..Len(outDirs) |-> Entry(names[i], outDirs[order[i]])])

\* directories p, q, r named B, ab, Ab by the sidecar: the entries are in
\* the order ab, Ab, B
C16_Witness ==
  /\ outDirs = << <<"p">>, <<"q">>, <<"r">> >>
  /\ projectMetadata = <<MetadataOf(<<"p">>, <<"B">>), MetadataOf(<<"q">>, <<"a", "b">>),
                         MetadataOf(<<"r">>, <<"A", "b">>)>>
  /\ mainIndex = <<LitMainHeader
                     \o <<"-", " ", "[", "a", "b", "]", "(", "q", "/", "I", "n", "d", "e", "x", ".", "m", "d", ")", "\n">>
                     \o <<"-", " ", "[", "A", "b", "]", "(", "r", "/", "I", "n", "d", "e", "x", ".", "m", "d", ")", "\n">>
                     \o <<"-", " ", "[", "B", "]", "(", "p", "/", "I", "n", "d", "e", "x", ".", "m", "d", ")", "\n">>>>

----------------------------------------------------------------------------
\* C17: the tasks of a Throttle are started in the order in which they were
\* enqueued, each at most once: the i-th task started is the i-th task
\* enqueued, whether it was enqueued from outside or by a running task.
C17_FifoOnce ==
  \A i \in 1..Len(started) : started[i].id = i

\* three tasks have started, the second one having enqueued a task while it
\* ran, and a task is still waiting in the queue
C17_Witness ==
  /\ Len(started) >= 3
  /\ ~started[1].inner
  /\ started[2].inner
  /\ queue # <<>>

----------------------------------------------------------------------------
\* the requests of Throttle tasks that have been issued and are not yet
\* answered for good: in flight, or waiting for a retry
ThrottledInProgress ==
  {r \in inflight \cup {t.req : t \in retryTimers} : r.kind \in {"list", "index"}}

\* C18: at most one task of the Throttle is in progress at any time: no task
\* is dequeued while the request of an earlier task, retries included, is
\* not yet answered for good.
C18_OneTaskInProgress ==
  Cardinality({[kind |-> r.kind, pg |-> r.pg, proj |-> r.proj] :
                 r \in ThrottledInProgress}) <= 1

----------------------------------------------------------------------------
\* the kinds of request that depend on the listing
DependentKinds == {"index", "page", "att"}

\* a wiki-index, wiki-page or attachment request has been queued, issued or
\* answered, or a page or attachment file has been written
DependentWorkStarted ==
  \/ \E i \in 1..Len(queue) : queue[i].kind = "index"
  \/ \E r \in inflight : r.kind \in DependentKinds
  \/ \E t \in retryTimers : t.req.kind \in DependentKinds
  \/ \E u \in used : u.kind \in DependentKinds
  \/ files # {}

\* C19: in a run of main.js projects-metadata.json is written at most once,
\* with all the projects the listing accumulated, in the order in which
\* the server listed them, and no wiki-index, wiki-page or attachment
\* request is issued, and no file written, before it.
C19_SidecarFirst ==
  /\ Len(sidecar) <= 1
  /\ sidecar # <<>> =>
       /\ sidecar[1] = projects
       /\ \A i, j \in 1..Len(projects) : i < j => projects[i] < projects[j]
  /\ DependentWorkStarted => sidecar # <<>>

\* two projects were listed and written to the sidecar in their order, and
\* a page file has been written since
C19_Witness ==
  /\ sidecar = << <<1, 2>> >>
  /\ files # {}
  /\ \E u \in used : u.kind = "page"

----------------------------------------------------------------------------
\* between steps, active is true exactly when one timer is pending, there
\* is never more than one, and a non-empty queue implies active
ThrottleArmed ==
  /\ thPending <= 1
  /\ active <=> thPending = 1
  /\ active <=> thTimer # NoTimer
  /\ queue # <<>> => active

\* a step that enqueues tasks starts none of them, and a task starts only
\* in the step of a timer whose time has come
NoSynchronousRun ==
  /\ \A i \in 1..Len(started') : started'[i].id <= nextId
  /\ started' # started => (thTimer # NoTimer /\ now >= thTimer)

\* C20: the Throttle never stalls.  Between steps active is true exactly
\* when one timer is pending, never more than one is, and a non-empty queue
\* implies active; enqueue does not run the task inside the caller; and
\* when every pending timer fires in the end, every enqueued task is
\* started in the end and the Throttle comes to rest with an empty queue
\* and active false.
C20_NeverStalls ==
  /\ []ThrottleArmed
  /\ [][NoSynchronousRun]_vars
  /\ \A id \in 1..MaxTasks :
       (nextId >= id) ~> (\E i \in 1..Len(started) : started[i].id = id)
  /\ <>[](queue = <<>> /\ ~active /\ thPending = 0)

\* every task has been enqueued and started, one of them enqueued by a
\* running task and one while a timer was pending, and the Throttle is at
\* rest
C20_Witness ==
  /\ nextId = MaxTasks
  /\ Len(started) = MaxTasks
  /\ \E i \in 1..Len(started) : started[i].inner
  /\ queue = <<>>
  /\ ~active
  /\ thPending = 0

----------------------------------------------------------------------------
\* the .md file of a page has been written
PageWritten(proj, title) ==
  \E f \in files : f.kind = "md" /\ f.proj = proj /\ f.title = title

\* the attachment requests issued and not yet answered for good
AttachmentRequests ==
  {r \in inflight \cup {t.req : t \in retryTimers} : r.kind = "att"}

\* the names of the attachments that have an id
NamesWithId ==
  {server.atts[i].name : i \in {j \in 1..Len(server.atts) : server.atts[j].id # 0}}

\* C21: whenever a download request for an attachment of a page has been
\* issued, and whenever an attachment file has been written, the .md file
\* of that page has been written; an attachment without an id has neither
\* a request nor a file.
C21_PageBeforeAttachments ==
  /\ \A r \in AttachmentRequests :
       /\ PageWritten(r.proj, r.title)
       /\ server.atts[r.att].id # 0
  /\ \A f \in files :
       f.kind = "att" => PageWritten(f.proj, f.title) /\ f.name \in NamesWithId

\* a page lists an attachment without id and one with id 7: the file of
\* the latter has been written next to the page, nothing is left to do
C21_Witness ==
  /\ server.atts = <<[id |-> 0, name |-> "g"], [id |-> 7, name |-> "f"]>>
  /\ \E f \in files : f.kind = "att" /\ f.name = "f" /\ PageWritten(f.proj, f.title)
  /\ Quiescent

----------------------------------------------------------------------------
\* the directory holds an Index.md
HasIndex(d) == InSeq(LitIndexMd, NamesOf(dirFiles[d]))

\* the top-level Index.md holds a link to <id>/Index.md
LinkedFromMain(id) ==
  /\ mainIndex # <<>>
  /\ Includes(mainIndex[1], <<"]", "(">> \o id \o <<"/", "I", "n", "d", "e", "x", ".", "m", "d", ")", "\n">>)

\* C22: a project directory that createProjectIndexes has processed holds an
\* Index.md, whichever branch was taken; every <id>/Index.md link of the
\* top-level Index.md points to an existing file once the run is over; and
\* a second run leaves the content of every Index.md, the top-level one
\* included, as the first run left it.
C22_IndexExistsAndStable ==
  /\ \A k \in 1..(ixPos - 1) : HasIndex(outDirs[k])
  /\ ixDone => \A d \in DirIds : LinkedFromMain(d) => HasIndex(d)
  /\ ixRun >= 2 =>
       /\ mainIndex = ixBefore[1].mainIndex
       /\ \A k \in 1..Len(outDirs) :
            /\ HasIndex(outDirs[k])
            /\ FileContent(dirFiles[outDirs[k]], LitIndexMd)
                 = FileContent(ixBefore[1].dirFiles[outDirs[k]], LitIndexMd)

\* the second run is over: p, which held no file, has the index the first
\* run generated, without page links, and q has had its Index.md written
\* again from Wiki.md
C22_Witness ==
  /\ ixRun = 2
  /\ ixDone
  /\ outDirs = << <<"p">>, <<"q">> >>
  /\ projectMetadata = <<>>
  /\ dirFiles[<<"p">>] = <<[name |-> LitIndexMd, content |-> <<"#", " ", "p", "\n", "\n", "#", "#", " ", "P", "a", "g", "e", "s", "\n", "\n">>]>>
  /\ OtherFiles(dirFiles[<<"q">>]) = <<FileOf(<<"z", ".", "m", "d">>), FileOf(<<"W", "i", "k", "i", ".", "m", "d">>)>>
  /\ ixWrites = <<[dir |-> <<"q">>, name |-> LitIndexMd,
                  content |-> FileOf(<<"W", "i", "k", "i", ".", "m", "d">>).content]>>
  /\ LinkedFromMain(<<"p">>)


============================================================================
